---- MODULE Spec2Model ----
(***************************************************************************)
(* Model of src/streamlit_app.py: calculate_projections (lines 6-43) and   *)
(* the two derivations the script takes from the returned table, the       *)
(* final-year snapshot (line 117) and the break-even year (line 125).      *)
(*                                                                         *)
(* Python floats are modelled as exact rationals [n |-> Int, d |-> Nat],   *)
(* kept in lowest terms; the float literals 1.2, 1.0, 0.8 and 0.5 are the  *)
(* rationals 6/5, 1, 4/5 and 1/2.  Rounding error of IEEE arithmetic is    *)
(* outside the model.                                                      *)
(***************************************************************************)
EXTENDS Integers, Sequences, FiniteSets, TLC

(* ------------------------------ bounds --------------------------------- *)
MaxYears == 3
MaxProducts == 2

(* ------------------------- rational arithmetic ------------------------- *)
Abs(a) == IF a < 0 THEN -a ELSE a

RECURSIVE GCD(_, _)
GCD(a, b) == IF b = 0 THEN a ELSE GCD(b, a % b)

Rat(n, d) ==
    LET s == IF d < 0 THEN -1 ELSE 1
        g == GCD(Abs(n), Abs(d))
    IN  [n |-> (s * n) \div g, d |-> (s * d) \div g]

Zero == [n |-> 0, d |-> 1]
One == [n |-> 1, d |-> 1]
FromInt(i) == [n |-> i, d |-> 1]

RAdd(x, y) ==
    LET g == GCD(x.d, y.d)
    IN  Rat(x.n * (y.d \div g) + y.n * (x.d \div g), (x.d \div g) * y.d)

RNeg(x) == [n |-> -x.n, d |-> x.d]
RSub(x, y) == RAdd(x, RNeg(y))

RMul(x, y) ==
    LET g1 == GCD(Abs(x.n), y.d)
        g2 == GCD(Abs(y.n), x.d)
    IN  [n |-> (x.n \div g1) * (y.n \div g2), d |-> (x.d \div g2) * (y.d \div g1)]

RDiv(x, y) == RMul(x, Rat(y.d, y.n))

RECURSIVE RPow(_, _)
RPow(x, k) == IF k = 0 THEN One ELSE RMul(x, RPow(x, k - 1))

RLe(x, y) ==
    LET g == GCD(x.d, y.d) IN x.n * (y.d \div g) <= y.n * (x.d \div g)

RLt(x, y) ==
    LET g == GCD(x.d, y.d) IN x.n * (y.d \div g) < y.n * (x.d \div g)

RMax(x, y) == IF RLe(y, x) THEN x ELSE y

RECURSIVE RSum(_)
RSum(s) == IF Len(s) = 0 THEN Zero ELSE RAdd(Head(s), RSum(Tail(s)))

(* ------------------------------ inputs --------------------------------- *)
Scenarios == {"Optimistic", "Most Likely", "Pessimistic"}

ProductInputs ==
    { [name |-> "A", initial_revenue |-> 100000, growth_rate |-> 20],
      [name |-> "A", initial_revenue |-> 100, growth_rate |-> -50],
      [name |-> "B", initial_revenue |-> 0, growth_rate |-> 20],
      [name |-> "B", initial_revenue |-> 100, growth_rate |-> -200],
      [name |-> "B", initial_revenue |-> 100, growth_rate |-> -100],
      [name |-> "B", initial_revenue |-> 100, growth_rate |-> 20] }

ProductLists == UNION { [1..k -> ProductInputs] : k \in 0..MaxProducts }

StaffingInputs ==
    { [num_employees |-> 1, avg_salary |-> 50000, cost_growth |-> 0],
      [num_employees |-> 1, avg_salary |-> 150, cost_growth |-> 0],
      [num_employees |-> 2, avg_salary |-> 40, cost_growth |-> 10] }

OtherCostInputs ==
    { [initial |-> 0, growth_rate |-> 0],
      [initial |-> 20, growth_rate |-> 20] }

PartnershipInputs == { [num_partners |-> 0], [num_partners |-> 2] }

(* ------------------------------- state --------------------------------- *)
VARIABLES
    years, scenario, products, staffing, partnerships, other_costs,
    pc, year, data, df, raised, final_year, break_even_year

inputs == <<years, scenario, products, staffing, partnerships, other_costs>>
vars == <<years, scenario, products, staffing, partnerships, other_costs,
          pc, year, data, df, raised, final_year, break_even_year>>

(* -------------------------- calculate_projections ---------------------- *)
BaseYear == 2025

\* mutant: labels start one year late
YearLabelOffByOne(y) == BaseYear + y + 1

YearLabel(y) == BaseYear + y

\* mutant: the scenario is ignored
ScenarioMultiplierIgnored(s) == Rat(10, 10)

ScenarioMultiplier(s) ==
    CASE s = "Optimistic" -> Rat(12, 10)
      [] s = "Most Likely" -> Rat(10, 10)
      [] s = "Pessimistic" -> Rat(8, 10)

RevenueKey(name) == name \o " Revenue"

\* mutant: the growth rate is used as a fraction, not a percentage
RevenueNoPercent(product, scenario_multiplier, y) ==
    RMul(FromInt(product.initial_revenue),
         RPow(RAdd(One, RMul(FromInt(product.growth_rate), scenario_multiplier)), y))

\* line 16
Revenue(product, scenario_multiplier, y) ==
    RMul(FromInt(product.initial_revenue),
         RPow(RAdd(One, RDiv(RMul(FromInt(product.growth_rate), scenario_multiplier),
                             FromInt(100))), y))

\* lines 15-17: each product stores its revenue under its key, later
\* assignments to the same key replace earlier ones
RECURSIVE StoreRevenues(_, _, _, _)
StoreRevenues(year_data, prods, scenario_multiplier, y) ==
    IF Len(prods) = 0 THEN year_data
    ELSE StoreRevenues(
            (RevenueKey(Head(prods).name) :> Revenue(Head(prods), scenario_multiplier, y))
                @@ year_data,
            Tail(prods), scenario_multiplier, y)

\* mutant: the scenario multiplier also scales the cost growth
StaffingCostScaled(st, y) ==
    RMul(FromInt(st.num_employees * st.avg_salary),
         RPow(RAdd(One, RMul(Rat(st.cost_growth, 100), ScenarioMultiplier(scenario))), y))

\* line 20
StaffingCost(st, y) ==
    RMul(FromInt(st.num_employees * st.avg_salary),
         RPow(RAdd(One, Rat(st.cost_growth, 100)), y))

\* line 24
OtherCost(oc, y) ==
    RMul(FromInt(oc.initial), RPow(RAdd(One, Rat(oc.growth_rate, 100)), y))

\* line 27
TotalRevenue(year_data, prods) ==
    RSum([i \in 1..Len(prods) |-> year_data[RevenueKey(prods[i].name)]])

\* mutant: the floor at zero is missing
SubsidyNoFloor(margin) == RMul(margin, Rat(1, 2))

\* line 34
Subsidy(margin) == RMax(Zero, RMul(margin, Rat(1, 2)))

\* mutant: zero partners are treated as one partner
AvgSubsidyPerPartnerClamped(subsidy, pt) ==
    RDiv(subsidy, FromInt(IF pt.num_partners > 0 THEN pt.num_partners ELSE 1))

\* line 39
AvgSubsidyPerPartner(subsidy, pt) ==
    IF pt.num_partners > 0 THEN RDiv(subsidy, FromInt(pt.num_partners)) ELSE Zero

\* lines 9-39: the record of one year
YearData(y) ==
    LET m == ScenarioMultiplier(scenario)
        d1 == StoreRevenues("Year" :> YearLabel(y), products, m, y)
        staffing_cost == StaffingCost(staffing, y)
        other == OtherCost(other_costs, y)
        total_revenue == TotalRevenue(d1, products)
        total_costs == RAdd(staffing_cost, other)
        margin == RSub(total_revenue, total_costs)
        subsidy == Subsidy(margin)
    IN  ("Avg Subsidy per Partner" :> AvgSubsidyPerPartner(subsidy, partnerships))
        @@ ("Total Subsidy" :> subsidy)
        @@ ("Margin" :> margin)
        @@ ("Total Costs" :> total_costs)
        @@ ("Total Revenue" :> total_revenue)
        @@ ("Other Costs" :> other)
        @@ ("Staffing Costs" :> staffing_cost)
        @@ d1

\* the values of break_even_year: not assigned yet, a float NaN, a Year
Unset == [kind |-> "unset"]
NaN == [kind |-> "nan"]
YearValue(y) == [kind |-> "int", value |-> y]

Init ==
    /\ years \in 0..MaxYears
    /\ scenario \in Scenarios
    /\ products \in ProductLists
    /\ staffing \in StaffingInputs
    /\ partnerships \in PartnershipInputs
    /\ other_costs \in OtherCostInputs
    /\ pc = "loop"
    /\ year = 0
    /\ data = <<>>
    /\ df = "None"
    /\ raised = "None"
    /\ final_year = "None"
    /\ break_even_year = Unset

\* lines 8-41: one iteration of `for year in range(years)`
YearStep ==
    /\ pc = "loop"
    /\ year < years
    /\ data' = Append(data, YearData(year))
    /\ year' = year + 1
    /\ UNCHANGED <<inputs, pc, df, raised, final_year, break_even_year>>

\* line 43 and line 89: the loop is exhausted, the table is returned
Return ==
    /\ pc = "loop"
    /\ year >= years
    /\ df' = data
    /\ pc' = "final_year"
    /\ UNCHANGED <<inputs, year, data, raised, final_year, break_even_year>>

\* line 117: df.iloc[-1] raises IndexError on a table without rows
FinalYear ==
    /\ pc = "final_year"
    /\ IF Len(df) = 0
       THEN /\ raised' = "IndexError"
            /\ pc' = "crashed"
            /\ UNCHANGED final_year
       ELSE /\ final_year' = df[Len(df)]
            /\ pc' = "break_even"
            /\ UNCHANGED raised
    /\ UNCHANGED <<inputs, year, data, df, break_even_year>>

\* line 125: the rows with Total Revenue >= Total Costs, their smallest Year;
\* min() of an empty selection is NaN
BreakEvenRows(table) ==
    { i \in 1..Len(table) : RLe(table[i]["Total Costs"], table[i]["Total Revenue"]) }

BreakEvenOf(table) ==
    LET rows == BreakEvenRows(table)
    IN  IF rows = {} THEN NaN
        ELSE YearValue(CHOOSE yr \in { table[i]["Year"] : i \in rows } :
                          \A i \in rows : yr <= table[i]["Year"])

\* A table without rows has no columns either, so df["Total Revenue"] raises
\* KeyError; the script never gets there, line 117 has raised before.
BreakEven ==
    /\ pc = "break_even"
    /\ IF Len(df) = 0
       THEN /\ raised' = "KeyError"
            /\ pc' = "crashed"
            /\ UNCHANGED break_even_year
       ELSE /\ break_even_year' = BreakEvenOf(df)
            /\ pc' = "done"
            /\ UNCHANGED raised
    /\ UNCHANGED <<inputs, year, data, df, final_year>>

Next == YearStep \/ Return \/ FinalYear \/ BreakEven

Spec == Init /\ [][Next]_vars

TypeOK ==
    /\ pc \in {"loop", "final_year", "break_even", "done", "crashed"}
    /\ year \in 0..years
    /\ Len(data) = year
    /\ raised \in {"None", "IndexError", "KeyError"}

(* ------------------------- helpers of the claims ----------------------- *)
Returned == pc # "loop"
Terminated == pc \in {"done", "crashed"}

HasDuplicateNames(prods) ==
    \E i, j \in 1..Len(prods) : i # j /\ prods[i].name = prods[j].name

\* the stream whose value the record holds under its name
IsStored(j) == \A k \in (j + 1)..Len(products) : products[k].name # products[j].name

StreamKeys == { RevenueKey(products[j].name) : j \in 1..Len(products) }

RECURSIVE SumOfFields(_, _)
SumOfFields(rec, keys) ==
    IF keys = {} THEN Zero
    ELSE LET k == CHOOSE x \in keys : TRUE
         IN  RAdd(rec[k], SumOfFields(rec, keys \ {k}))

\* the literal multipliers of line 12, in tenths
MultiplierTenths ==
    CASE scenario = "Optimistic" -> 12
      [] scenario = "Most Likely" -> 10
      [] scenario = "Pessimistic" -> 8

(* ------------------------------- claims -------------------------------- *)

\* C1: with an empty products sequence the computation fails with
\* InvalidParameters and returns no table (no records of zero total revenue).
C1_EmptyProductsRejected ==
    (products = <<>> /\ Returned) => (raised = "InvalidParameters" /\ df = "None")

\* C2: with two streams of the same name the computation fails with
\* InvalidParameters before any year record is built and returns no table.
C2_DuplicateNamesRejected ==
    HasDuplicateNames(products) =>
        /\ data = <<>>
        /\ Returned => (raised = "InvalidParameters" /\ df = "None")

\* C3: in every year record total_revenue is the sum of the record's
\* per-stream revenue fields and total_costs is staffing_costs + other_costs.
C3_Additivity ==
    \A i \in 1..Len(data) :
        /\ data[i]["Total Revenue"] = SumOfFields(data[i], StreamKeys)
        /\ data[i]["Total Costs"] = RAdd(data[i]["Staffing Costs"], data[i]["Other Costs"])

\* C4: in every year record margin = total_revenue - total_costs, and
\* total_subsidy is max(0, margin * 0.5): never negative, half the margin
\* when the margin is not negative, and 0 when the margin is negative.
C4_MarginAndSubsidy ==
    \A i \in 1..Len(data) :
        LET r == data[i]
        IN  /\ RAdd(r["Margin"], r["Total Costs"]) = r["Total Revenue"]
            /\ r["Total Subsidy"].n >= 0
            /\ r["Margin"].n < 0 => r["Total Subsidy"] = Zero
            /\ r["Margin"].n >= 0 => RAdd(r["Total Subsidy"], r["Total Subsidy"]) = r["Margin"]

C4_Witness ==
    /\ \E i \in 1..Len(data) : data[i]["Margin"].n < 0
    /\ \E i \in 1..Len(data) : data[i]["Margin"].n > 0

\* C5: with num_partners = 0 no error is raised by the computation and every
\* record has avg_subsidy_per_partner = 0; with num_partners > 0 every record
\* has avg_subsidy_per_partner = total_subsidy / num_partners.
C5_PartnerDivision ==
    /\ \A i \in 1..Len(data) :
          LET r == data[i]
          IN  /\ partnerships.num_partners = 0 => r["Avg Subsidy per Partner"] = Zero
              /\ partnerships.num_partners > 0 =>
                    RMul(r["Avg Subsidy per Partner"], FromInt(partnerships.num_partners))
                        = r["Total Subsidy"]
    /\ (partnerships.num_partners = 0 /\ pc = "final_year") =>
          (raised = "None" /\ Len(df) = years)

C5_Witness ==
    /\ partnerships.num_partners = 0
    /\ pc = "final_year"
    /\ \E i \in 1..Len(df) : df[i]["Margin"].n > 0

\* C6: the returned table has exactly `years` records, record i (from 0)
\* has Year = 2025 + i, and a horizon of 0 gives the empty table.
C6_MonotonicYears ==
    /\ \A i \in 1..Len(data) : data[i]["Year"] = 2025 + (i - 1)
    /\ Returned =>
          /\ Len(df) = years
          /\ \A i \in 1..Len(df) : df[i]["Year"] = 2025 + (i - 1)
          /\ \A i \in 1..(Len(df) - 1) : df[i + 1]["Year"] = df[i]["Year"] + 1
          /\ years = 0 => df = <<>>

C6_Witness == Returned /\ Len(df) >= 2 /\ df[2]["Year"] = 2026

\* C7: the break-even year is the smallest Year of the table whose record has
\* total_revenue >= total_costs; when no record does, the empty table
\* included, the result is an explicit undefined value and nothing is raised.
C7_BreakEven ==
    Terminated =>
        /\ raised = "None"
        /\ break_even_year.kind \in {"int", "nan"}
        /\ \A i \in 1..Len(df) :
              RLe(df[i]["Total Costs"], df[i]["Total Revenue"]) =>
                  /\ break_even_year.kind = "int"
                  /\ break_even_year.value <= df[i]["Year"]
        /\ break_even_year.kind = "int" =>
              \E i \in 1..Len(df) :
                  /\ df[i]["Year"] = break_even_year.value
                  /\ RLe(df[i]["Total Costs"], df[i]["Total Revenue"])
        /\ (\A i \in 1..Len(df) : ~RLe(df[i]["Total Costs"], df[i]["Total Revenue"])) =>
              break_even_year = NaN

\* the scenario ordering of the revenue of stream j at year index n, read
\* from the record built under the run's scenario
ScenarioOrdered(j, n) ==
    LET p == products[j]
        r == data[n + 1][RevenueKey(p.name)]
    IN  /\ scenario = "Optimistic" =>
              RLt(Revenue(p, ScenarioMultiplier("Most Likely"), n), r)
        /\ scenario = "Most Likely" =>
              /\ RLt(r, Revenue(p, ScenarioMultiplier("Optimistic"), n))
              /\ RLt(Revenue(p, ScenarioMultiplier("Pessimistic"), n), r)
        /\ scenario = "Pessimistic" =>
              RLt(r, Revenue(p, ScenarioMultiplier("Most Likely"), n))

\* C8 as stated: for a stream with positive growth rate and every year index
\* n > 0, revenue under Optimistic > under Most Likely > under Pessimistic.
C8_ScenarioScaling ==
    \A j \in 1..Len(products) : \A n \in 1..(Len(data) - 1) :
        (IsStored(j) /\ products[j].growth_rate > 0) => ScenarioOrdered(j, n)

\* C8 amended: the same ordering for a stream with positive initial revenue
\* and positive growth rate.
C8_ScenarioScalingPositiveRevenue ==
    \A j \in 1..Len(products) : \A n \in 1..(Len(data) - 1) :
        (IsStored(j) /\ products[j].growth_rate > 0 /\ products[j].initial_revenue > 0)
            => ScenarioOrdered(j, n)

C8_Witness ==
    /\ scenario = "Most Likely"
    /\ Len(data) >= 2
    /\ \E j \in 1..Len(products) :
          IsStored(j) /\ products[j].growth_rate > 0 /\ products[j].initial_revenue > 0

\* the revenue of stream j is never negative and never grows from one year
\* record to the next
ShrinksTowardZero(j) ==
    LET k == RevenueKey(products[j].name)
    IN  /\ \A i \in 1..Len(data) : data[i][k].n >= 0
        /\ \A i \in 1..(Len(data) - 1) : RLe(data[i + 1][k], data[i][k])

\* C9 as stated: for a stream with positive initial revenue and any negative
\* growth rate, under every scenario, the revenue is never below zero and
\* revenue(y+1) <= revenue(y).
C9_NegativeGrowth ==
    \A j \in 1..Len(products) :
        (IsStored(j) /\ products[j].initial_revenue > 0 /\ products[j].growth_rate < 0)
            => ShrinksTowardZero(j)

\* C9 amended: the same for a negative growth rate whose scenario-adjusted
\* value growth_rate * scenario_multiplier is not below -100.
C9_NegativeGrowthAboveMinus100 ==
    \A j \in 1..Len(products) :
        (/\ IsStored(j)
         /\ products[j].initial_revenue > 0
         /\ products[j].growth_rate < 0
         /\ products[j].growth_rate * MultiplierTenths >= -1000)
            => ShrinksTowardZero(j)

C9_Witness ==
    /\ Len(data) >= 2
    /\ \E j \in 1..Len(products) :
          /\ IsStored(j)
          /\ products[j].initial_revenue > 0
          /\ products[j].growth_rate < 0
          /\ products[j].growth_rate * MultiplierTenths >= -1000
          /\ RLt(data[2][RevenueKey(products[j].name)], data[1][RevenueKey(products[j].name)])
          /\ data[2][RevenueKey(products[j].name)].n > 0

\* the inputs of the worked example of the specification
ConcreteScenario ==
    /\ years = 2
    /\ scenario = "Most Likely"
    /\ products = << [name |-> "A", initial_revenue |-> 100000, growth_rate |-> 20] >>
    /\ staffing = [num_employees |-> 1, avg_salary |-> 50000, cost_growth |-> 0]
    /\ other_costs = [initial |-> 0, growth_rate |-> 0]
    /\ partnerships = [num_partners |-> 2]

\* C10: each stream's revenue is initial_revenue * (1 + growth_rate *
\* multiplier / 100)^y, stated as the year-0 value and the ratio between
\* consecutive years; staffing and other costs compound on their own rates
\* whatever the scenario; the worked example has the listed values.
C10_CompoundGrowth ==
    /\ \A j \in 1..Len(products) :
          IsStored(j) =>
              LET k == RevenueKey(products[j].name)
              IN  /\ Len(data) >= 1 => data[1][k] = FromInt(products[j].initial_revenue)
                  /\ \A i \in 1..(Len(data) - 1) :
                        RMul(data[i + 1][k], FromInt(1000)) =
                            RMul(data[i][k],
                                 FromInt(1000 + products[j].growth_rate * MultiplierTenths))
    /\ Len(data) >= 1 =>
          /\ data[1]["Staffing Costs"] = FromInt(staffing.num_employees * staffing.avg_salary)
          /\ data[1]["Other Costs"] = FromInt(other_costs.initial)
    /\ \A i \in 1..(Len(data) - 1) :
          /\ RMul(data[i + 1]["Staffing Costs"], FromInt(100)) =
                RMul(data[i]["Staffing Costs"], FromInt(100 + staffing.cost_growth))
          /\ RMul(data[i + 1]["Other Costs"], FromInt(100)) =
                RMul(data[i]["Other Costs"], FromInt(100 + other_costs.growth_rate))
    /\ (ConcreteScenario /\ Returned) =>
          /\ df[1]["A Revenue"] = FromInt(100000)
          /\ df[1]["Total Costs"] = FromInt(50000)
          /\ df[1]["Margin"] = FromInt(50000)
          /\ df[1]["Total Subsidy"] = FromInt(25000)
          /\ df[1]["Avg Subsidy per Partner"] = FromInt(12500)
          /\ df[2]["A Revenue"] = FromInt(120000)
          /\ df[2]["Total Costs"] = FromInt(50000)
          /\ df[2]["Margin"] = FromInt(70000)
          /\ df[2]["Total Subsidy"] = FromInt(35000)
          /\ df[2]["Avg Subsidy per Partner"] = FromInt(17500)

C10_Witness == ConcreteScenario /\ pc = "done"
====
